---- MODULE Spec2Model ----
(***************************************************************************)
(* Model of blatann's SecurityManager (blatann/gap/smp.py) and of the      *)
(* ScanFinishedWaitable (blatann/waitables/scan_waitable.py).              *)
(*                                                                         *)
(* Three execution contexts touch a SecurityManager:                       *)
(*   - the calling context (set_security_params, pair, wait),              *)
(*   - the driver's event-delivery context (the _on_* handlers),           *)
(*   - the passkey-entry threads started by _on_auth_key_request.          *)
(* Handlers and pair() are split at the statements where another context   *)
(* can observe or change _busy; the position of each context is state.     *)
(* The driver and the peer are the environment: which procedure is         *)
(* outstanding at the driver decides which events it can deliver.          *)
(***************************************************************************)
EXTENDS Integers, Sequences, FiniteSets, TLC

\* ---------------------------------------------------------------- bounds
MaxBonds == 2        \* records the bond store may hold
MaxResolvers == 1    \* passkey-entry threads alive at the same time
ByteMod == 2         \* size of the byte alphabet of the abstracted cipher

\* ------------------------------------------------------------- addresses
\* nrf_types.BLEGapAddrTypes
AddrTypes == {"public", "random_static", "random_private_resolvable",
              "random_private_non_resolvable"}

\* a 6-byte address whose prand part ends in p and whose hash part ends in h
Addr6(p, h) == <<0, 0, p, 0, 0, h>>

Reverse(s) == [i \in 1..Len(s) |-> s[Len(s) + 1 - i]]

\* Stand-in for AES-128-ECB: a keyed permutation of the block.  The key acts
\* through a position-weighted sum, so that byte order of the key matters.
KeyVal(key) == (key[1] + 2 * key[2]) % ByteMod
Encrypt(key, block) == [i \in 1..Len(block) |-> (block[i] + KeyVal(key)) % ByteMod]

Zeros13 == [i \in 1..13 |-> 0]

\* ah(): raises ValueError unless len(p_rand) = 3
AhRaises(p_rand) == Len(p_rand) # 3
ah(key, p_rand) ==
    LET c == Encrypt(key, Zeros13 \o p_rand)
    IN  SubSeq(c, Len(c) - 2, Len(c))

\* Python slices s[:n] and s[n:], which truncate instead of failing
SliceTo(s, n) == SubSeq(s, 1, IF n < Len(s) THEN n ELSE Len(s))
SliceFrom(s, n) == IF n >= Len(s) THEN <<>> ELSE SubSeq(s, n + 1, Len(s))

\* private_address_resolves(): prand = addr[:3], hash = addr[3:], irk reversed
ResolveRaises(peer_addr) == AhRaises(SliceTo(peer_addr.addr, 3))
private_address_resolves(peer_addr, irk) ==
    LET p_rand    == SliceTo(peer_addr.addr, 3)
        addr_hash == SliceFrom(peer_addr.addr, 3)
        local_hash == ah(Reverse(irk), p_rand)
    IN  local_hash = addr_hash

\* --------------------------------------------------------- bond records
\* BondingData(keyset): the keys of the keyset copied into the record
BondingData(ks) ==
    [own_ltk |-> ks.own_ltk, peer_ltk |-> ks.peer_ltk, peer_id |-> ks.id_key]

NoEntry == 0   \* bond_db_entry = None; otherwise an index into bond_db

\* the loop of _find_db_entry with the type test of line 206 left out: every
\* address goes to the resolver
RECURSIVE FindFrom_ResolvesAll(_, _, _, _)
FindFrom_ResolvesAll(db, isClient, peer_address, i) ==
    IF i > Len(db) THEN NoEntry
    ELSE IF isClient # db[i].peer_is_client
         THEN FindFrom_ResolvesAll(db, isClient, peer_address, i + 1)
    ELSE IF private_address_resolves(peer_address, db[i].bonding_data.peer_id.irk)
         THEN i
    ELSE FindFrom_ResolvesAll(db, isClient, peer_address, i + 1)

\* _find_db_entry(): index of the first matching record, NoEntry if none
RECURSIVE FindFrom(_, _, _, _)
FindFrom(db, isClient, peer_address, i) ==
    IF i > Len(db) THEN NoEntry
    ELSE IF isClient # db[i].peer_is_client
         THEN FindFrom(db, isClient, peer_address, i + 1)
    ELSE IF peer_address.addr_type \in {"random_static", "public"}
         THEN IF db[i].peer_addr = peer_address
              THEN i
              ELSE FindFrom(db, isClient, peer_address, i + 1)
    ELSE IF private_address_resolves(peer_address, db[i].bonding_data.peer_id.irk)
         THEN i
    ELSE FindFrom(db, isClient, peer_address, i + 1)

\* _find_db_entry() without the resolving branch of lines 209-211
find_db_entry_NoResolve(db, isClient, peer_address) ==
    LET exact == {i \in 1..Len(db) : /\ db[i].peer_is_client = isClient
                                      /\ db[i].peer_addr = peer_address}
    IN  IF peer_address.addr_type \notin {"random_static", "public"} \/ exact = {}
        THEN NoEntry
        ELSE CHOOSE i \in exact : \A j \in exact : i <= j

\* _find_db_entry() without the early return of lines 198-199
find_db_entry_NoShortCircuit(db, isClient, peer_address) ==
    FindFrom(db, isClient, peer_address, 1)

find_db_entry(db, isClient, peer_address) ==
    IF peer_address.addr_type = "random_private_non_resolvable"
    THEN NoEntry
    ELSE FindFrom(db, isClient, peer_address, 1)

\* how many times the loop of _find_db_entry reaches the call of
\* private_address_resolves at line 209
RECURSIVE ResolverCallsFrom(_, _, _, _)
ResolverCallsFrom(db, isClient, peer_address, i) ==
    IF i > Len(db) THEN 0
    ELSE IF isClient # db[i].peer_is_client
         THEN ResolverCallsFrom(db, isClient, peer_address, i + 1)
    ELSE IF peer_address.addr_type \in {"random_static", "public"}
         THEN IF db[i].peer_addr = peer_address
              THEN 0
              ELSE ResolverCallsFrom(db, isClient, peer_address, i + 1)
    ELSE IF private_address_resolves(peer_address, db[i].bonding_data.peer_id.irk)
         THEN 1
    ELSE 1 + ResolverCallsFrom(db, isClient, peer_address, i + 1)

ResolverCalls(db, isClient, peer_address) ==
    IF peer_address.addr_type = "random_private_non_resolvable"
    THEN 0
    ELSE ResolverCallsFrom(db, isClient, peer_address, 1)

\* ------------------------------------------------------------ variables
VARIABLES
    is_client,        \* peer.is_client, fixed for the life of the manager
    connected,        \* the peer is connected
    peer_address,     \* peer.peer_address of the current connection
    subscribed,       \* driver event types the manager's handlers are subscribed to
    busy,             \* SecurityManager._busy
    security_params,  \* SecurityManager.security_params
    bond_db_entry,    \* SecurityManager.bond_db_entry
    keyset,           \* SecurityManager.keyset
    bond_db,          \* ble_device.bond_db
    saved_db,         \* what bond_db_loader.save() last wrote
    cpc,              \* position of the calling context
    dpc,              \* position of the delivery context inside a handler
    devt,             \* the event the delivery context is handling
    notified,         \* pairing-complete status raised while handling devt
    cmd,              \* reply the running handler handed to the driver
    inflight,         \* pairing procedure outstanding at the driver, by origin
    term,             \* terminal status notified for the attempt pair() started
    w_state,          \* EventWaitable returned by the last pair()
    w_args,           \* status captured by that waitable
    n_pending,        \* passkey threads whose resolve() was not called yet
    n_checked,        \* passkey threads past the _busy check of resolve()
    stale,            \* how many of those were handed out in an attempt that has ended
    sw_sub,           \* ScanFinishedWaitable is subscribed to GapEvtTimeout
    sw_state,         \* ScanFinishedWaitable: none / waiting / timedout / fired
    sw_notified,      \* _notify() calls of the ScanFinishedWaitable
    lk,               \* last direct call of _find_db_entry: argument, result, resolver calls
    rs                \* last direct call of private_address_resolves: arguments, outcome

vars == <<is_client, connected, peer_address, subscribed, busy, security_params,
          bond_db_entry, keyset, bond_db, saved_db, cpc, dpc, devt, notified, cmd,
          inflight, term, w_state, w_args, n_pending, n_checked, stale, sw_sub,
          sw_state,
          sw_notified, lk, rs>>

sessionVars == <<is_client, connected, peer_address, subscribed, busy,
                 security_params, bond_db_entry>>
storeVars   == <<keyset, bond_db, saved_db>>
handlerVars == <<dpc, devt, notified, cmd>>
waitVars    == <<w_state, w_args>>
threadVars  == <<n_pending, n_checked, stale>>
scanVars    == <<sw_sub, sw_state, sw_notified>>
callVars    == <<lk, rs>>

\* ----------------------------------------------------- values and domains
\* SecurityStatus values a GapEvtAuthStatus reports here
AuthStatuses == {"success", "unspecified"}

\* BLEGapTimeoutSrc
TimeoutSrcs == {"advertising", "security_req", "scan", "conn"}

\* driver event types _on_peer_connected subscribes handlers to
ConnectSubscriptions ==
    {"GapEvtSecParamsRequest", "GapEvtAuthStatus", "GapEvtAuthKeyRequest",
     "GapEvtPasskeyDisplay", "GapEvtSecInfoRequest"}

MasterId(e, r) == [ediv |-> e, rand |-> r]
Ltk(mid, info) == [master_id |-> mid, enc_info |-> info]
IdKey(irk, a) == [irk |-> irk, peer_addr |-> a]
Keyset(own, peer, id) == [own_ltk |-> own, peer_ltk |-> peer, id_key |-> id]

PublicAddr(h) == [addr_type |-> "public", addr |-> Addr6(0, h)]
StaticAddr(h) == [addr_type |-> "random_static", addr |-> Addr6(1, h)]
ResolvableAddr(p, h) == [addr_type |-> "random_private_resolvable", addr |-> Addr6(p, h)]
NonResolvableAddr(h) == [addr_type |-> "random_private_non_resolvable", addr |-> Addr6(0, h)]

\* the resolvable private address a peer holding irk generates from prand
\* <<0, 0, p>>: prand followed by ah(irk, prand), the hash that
\* private_address_resolves() recomputes
RpaFrom(irk, p) ==
    [addr_type |-> "random_private_resolvable",
     addr |-> <<0, 0, p>> \o ah(Reverse(irk), <<0, 0, p>>)]

\* nrf_types.BLEGapSecKeyset(): no keys yet
EmptyKeyset ==
    Keyset(Ltk(MasterId(0, 0), 0), Ltk(MasterId(0, 0), 0), IdKey(<<0, 0>>, PublicAddr(0)))

\* SecurityParameters(...): the fields this module reads
SecurityParameters(bond, reject) == [bond |-> bond, reject_pairing_requests |-> reject]
ParamSets == {SecurityParameters(b, r) : b \in BOOLEAN, r \in BOOLEAN}

\* _get_security_params(): BLEGapSecParams with identity+encryption key distribution
get_security_params(sp) ==
    [bond |-> sp.bond, min_key_size |-> 7, max_key_size |-> 16,
     kdist_own |-> <<TRUE, TRUE, FALSE, FALSE>>, kdist_peer |-> <<TRUE, TRUE, FALSE, FALSE>>]

BondRecord(isClient, a, ks) ==
    [peer_is_client |-> isClient, peer_addr |-> a, bonding_data |-> BondingData(ks)]

\* events as the driver hands them to the handlers; origin is who started the
\* procedure the event belongs to
Evt(type, status, bonded, src, mid, keys, origin) ==
    [type |-> type, status |-> status, bonded |-> bonded, src |-> src,
     master_id |-> mid, keys |-> keys, origin |-> origin]
NoEvt == Evt("none", "none", FALSE, "none", MasterId(0, 0), EmptyKeyset, "none")

\* replies handed to the driver
Cmd(name, status, sec_params, enc_info) ==
    [name |-> name, status |-> status, sec_params |-> sec_params, enc_info |-> enc_info]
NoCmd == Cmd("none", "none", <<>>, <<>>)

\* no direct call of _find_db_entry / private_address_resolves was made yet
NoLookup == [called |-> FALSE, addr |-> PublicAddr(0), out |-> NoEntry, calls |-> 0]
NoStale == [pending |-> 0, checked |-> 0]
NoResolve == [called |-> FALSE, addr |-> <<>>, irk |-> <<0, 0>>, out |-> "none"]

InitCommon ==
    /\ connected = FALSE
    /\ peer_address = PublicAddr(0)
    /\ subscribed = {}
    /\ busy = FALSE
    /\ bond_db_entry = NoEntry
    /\ keyset = EmptyKeyset
    /\ saved_db = bond_db
    /\ cpc = "idle"
    /\ dpc = "idle"
    /\ devt = NoEvt
    /\ notified = "none"
    /\ cmd = NoCmd
    /\ inflight = "none"
    /\ term = "none"
    /\ w_state = "none"
    /\ w_args = "none"
    /\ n_pending = 0
    /\ n_checked = 0
    /\ stale = NoStale
    /\ sw_sub = FALSE
    /\ sw_state = "none"
    /\ sw_notified = 0
    /\ lk = NoLookup
    /\ rs = NoResolve

\* ------------------------------------------------ delivery context: connect
\* _on_peer_connected, lines 185-195
AttemptOver ==
    /\ stale' = [stale EXCEPT !.pending = n_pending]
    /\ UNCHANGED <<n_pending, n_checked>>

PeerConnected(a) ==
    /\ ~connected
    /\ dpc = "idle"
    /\ connected' = TRUE
    /\ peer_address' = a
    /\ busy' = FALSE
    /\ subscribed' = ConnectSubscriptions
    /\ bond_db_entry' = find_db_entry(bond_db, is_client, a)
    /\ AttemptOver
    /\ UNCHANGED <<is_client, security_params, storeVars, cpc, handlerVars, inflight,
                   term, waitVars, scanVars, callVars>>

\* the link drops: the peer's driver subscriptions end with the connection and
\* the procedure outstanding at the driver is gone; the manager has no handler
PeerDisconnected ==
    /\ connected
    /\ dpc = "idle"
    /\ connected' = FALSE
    /\ subscribed' = {}
    /\ inflight' = "none"
    /\ UNCHANGED <<is_client, peer_address, busy, security_params, bond_db_entry,
                   storeVars, cpc, handlerVars, term, waitVars, scanVars, callVars>>
    /\ AttemptOver

\* the handler returns to the driver's dispatch loop
HandlerReturn ==
    /\ dpc' = "idle"
    /\ devt' = NoEvt
    /\ notified' = "none"
    /\ cmd' = NoCmd

\* --------------------------------- delivery context: security params request
\* _on_security_params_request, lines 228-235: build and send the reply
SecParamsRequest_Reply ==
    /\ connected
    /\ dpc = "idle"
    /\ "GapEvtSecParamsRequest" \in subscribed
    /\ LET sec_params == IF is_client THEN <<get_security_params(security_params)>> ELSE <<>>
           status == IF security_params.reject_pairing_requests
                     THEN "pairing_not_supp" ELSE "success"
       IN  /\ cmd' = Cmd("sec_params_reply", status, sec_params, <<>>)
           /\ inflight' = IF status = "success" /\ inflight = "none" THEN "peer" ELSE inflight
    /\ devt' = Evt("GapEvtSecParamsRequest", "none", FALSE, "none", MasterId(0, 0),
                   EmptyKeyset, inflight)
    /\ dpc' = "d237"
    /\ UNCHANGED <<sessionVars, storeVars, cpc, notified, term, waitVars, threadVars,
                   scanVars, callVars>>

\* lines 237-238: become busy unless rejecting
SecParamsRequest_Busy ==
    /\ dpc = "d237"
    /\ busy' = IF ~security_params.reject_pairing_requests THEN TRUE ELSE busy
    /\ HandlerReturn
    /\ UNCHANGED <<is_client, connected, peer_address, subscribed, security_params,
                   bond_db_entry, storeVars, cpc, inflight, term, waitVars, threadVars,
                   scanVars, callVars>>

\* a one-step handler has run; the delivery context goes back to the driver
Handler_Return ==
    /\ dpc = "dDone"
    /\ HandlerReturn
    /\ UNCHANGED <<sessionVars, storeVars, cpc, inflight, term, waitVars, threadVars,
                   scanVars, callVars>>

\* ------------------------------------ delivery context: security info request
\* the loop of _on_security_info_request without the comparison with the peer
\* master id of lines 255-258
RECURSIVE FindByMasterId_OwnOnly(_, _, _, _)
FindByMasterId_OwnOnly(db, isClient, mid, i) ==
    IF i > Len(db) THEN NoEntry
    ELSE IF db[i].peer_is_client # isClient
         THEN FindByMasterId_OwnOnly(db, isClient, mid, i + 1)
    ELSE LET own_mid == db[i].bonding_data.own_ltk.master_id
         IN  IF mid.ediv = own_mid.ediv /\ mid.rand = own_mid.rand THEN i
             ELSE FindByMasterId_OwnOnly(db, isClient, mid, i + 1)

\* the loop of _on_security_info_request, lines 246-259: first role-matching
\* record whose own or peer master id equals the requested one
RECURSIVE FindByMasterId(_, _, _, _)
FindByMasterId(db, isClient, mid, i) ==
    IF i > Len(db) THEN NoEntry
    ELSE IF db[i].peer_is_client # isClient
         THEN FindByMasterId(db, isClient, mid, i + 1)
    ELSE LET own_mid  == db[i].bonding_data.own_ltk.master_id
             peer_mid == db[i].bonding_data.peer_ltk.master_id
         IN  IF mid.ediv = own_mid.ediv /\ mid.rand = own_mid.rand THEN i
             ELSE IF mid.ediv = peer_mid.ediv /\ mid.rand = peer_mid.rand THEN i
             ELSE FindByMasterId(db, isClient, mid, i + 1)

\* _on_security_info_request, lines 240-266
SecInfoRequest(mid) ==
    /\ connected
    /\ dpc = "idle"
    /\ "GapEvtSecInfoRequest" \in subscribed
    /\ LET found_record == FindByMasterId(bond_db, is_client, mid, 1)
       IN  IF found_record = NoEntry
           THEN /\ cmd' = Cmd("sec_info_reply", "none", <<>>, <<>>)
                /\ UNCHANGED bond_db_entry
           ELSE /\ bond_db_entry' = found_record
                /\ cmd' = Cmd("sec_info_reply", "none", <<>>,
                              <<bond_db[found_record].bonding_data.own_ltk.enc_info>>)
    /\ devt' = Evt("GapEvtSecInfoRequest", "none", FALSE, "none", mid, EmptyKeyset, inflight)
    /\ dpc' = "dDone"
    /\ UNCHANGED <<is_client, connected, peer_address, subscribed, busy, security_params,
                   storeVars, cpc, notified, inflight, term, waitVars, threadVars, scanVars,
                   callVars>>

\* ------------------------------------- pairing-complete event source
\* EventSource.notify on _on_authentication_complete_event: the registered
\* EventWaitable captures the arguments and unregisters itself
\* (own: the event ends the attempt the last pair() started)
NotifyComplete(status, own) ==
    /\ notified' = status
    /\ IF w_state = "registered"
       THEN w_state' = "fired" /\ w_args' = status
       ELSE UNCHANGED waitVars
    /\ term' = IF own THEN status ELSE term

\* --------------------------------- delivery context: authentication status
\* whether the save branch of _on_authentication_status would add a record
WouldCreate(ks) ==
    /\ bond_db_entry = NoEntry
    /\ find_db_entry(bond_db, is_client, ks.id_key.peer_addr) = NoEntry

\* the driver delivers GapEvtAuthStatus; _on_authentication_status, line 272
AuthStatus_Busy(status, bonded, ks) ==
    /\ connected
    /\ dpc = "idle"
    /\ "GapEvtAuthStatus" \in subscribed
    /\ inflight # "none"
    /\ (status = "success" /\ bonded /\ WouldCreate(ks)) => Len(bond_db) < MaxBonds
    /\ devt' = Evt("GapEvtAuthStatus", status, bonded, "none", MasterId(0, 0), ks, inflight)
    /\ inflight' = "none"
    /\ busy' = FALSE
    /\ dpc' = "d273"
    /\ UNCHANGED <<is_client, connected, peer_address, subscribed, security_params,
                   bond_db_entry, storeVars, cpc, notified, cmd, term, waitVars,
                   scanVars, callVars>>
    /\ AttemptOver

\* line 273
AuthStatus_Notify ==
    /\ dpc = "d273"
    /\ NotifyComplete(devt.status, devt.origin = "pair" /\ inflight # "pair")
    /\ dpc' = "d275"
    /\ UNCHANGED <<sessionVars, storeVars, cpc, devt, cmd, inflight, threadVars, scanVars,
                   callVars>>

\* lines 279-284 without the second lookup of line 280
SaveEntry_NoSecondLookup(db, entry, isClient, ks) == entry

\* lines 279-284: the record the keys go to, NoEntry when one has to be created
SaveEntry(db, entry, isClient, ks) ==
    IF entry # NoEntry THEN entry
    ELSE find_db_entry(db, isClient, ks.id_key.peer_addr)

\* lines 284-292 with the update of line 292 left out
SaveBonds_KeepsKeys(db, entry, isClient, ks) ==
    LET e == SaveEntry(db, entry, isClient, ks)
    IN  IF e = NoEntry
        THEN Append(db, BondRecord(isClient, ks.id_key.peer_addr, ks))
        ELSE db

\* lines 284-292: the store after the keys were put in
SaveBonds(db, entry, isClient, ks) ==
    LET e == SaveEntry(db, entry, isClient, ks)
    IN  IF e = NoEntry
        THEN Append(db, BondRecord(isClient, ks.id_key.peer_addr, ks))
        ELSE [db EXCEPT ![e].bonding_data = BondingData(ks)]

\* line 295: bond_db_loader.save(bond_db)
SaveStore(db) == db

\* lines 275-295 without the test of line 275: the keys of every
\* authentication status are saved
AuthStatus_Save_AnyStatus ==
    /\ dpc = "d275"
    /\ LET e == SaveEntry(bond_db, bond_db_entry, is_client, devt.keys)
           db == SaveBonds(bond_db, bond_db_entry, is_client, devt.keys)
       IN  /\ keyset' = devt.keys
           /\ bond_db' = db
           /\ bond_db_entry' = IF e = NoEntry THEN Len(db) ELSE e
           /\ saved_db' = SaveStore(db)
    /\ HandlerReturn
    /\ UNCHANGED <<is_client, connected, peer_address, subscribed, busy, security_params,
                   cpc, inflight, term, waitVars, threadVars, scanVars, callVars>>

\* lines 275-295
AuthStatus_Save ==
    /\ dpc = "d275"
    /\ IF devt.status = "success" /\ devt.bonded
       THEN LET e == SaveEntry(bond_db, bond_db_entry, is_client, devt.keys)
                db == SaveBonds(bond_db, bond_db_entry, is_client, devt.keys)
            IN  /\ keyset' = devt.keys
                /\ bond_db' = db
                /\ bond_db_entry' = IF e = NoEntry THEN Len(db) ELSE e
                /\ saved_db' = SaveStore(db)
       ELSE UNCHANGED <<storeVars, bond_db_entry>>
    /\ HandlerReturn
    /\ UNCHANGED <<is_client, connected, peer_address, subscribed, busy, security_params,
                   cpc, inflight, term, waitVars, threadVars, scanVars, callVars>>

\* lines 275-295 run by the SecurityManager of another peer on the shared
\* ble_device.bond_db, for a successful bonded status: that manager has its own
\* role c and its own bond_db_entry, which is None or a record of its role
OtherManager_Save(c, entry, ks) ==
    /\ dpc = "idle"
    /\ entry \in {NoEntry} \cup {i \in 1..Len(bond_db) : bond_db[i].peer_is_client = c}
    /\ (entry = NoEntry /\ find_db_entry(bond_db, c, ks.id_key.peer_addr) = NoEntry)
          => Len(bond_db) < MaxBonds
    /\ bond_db' = SaveBonds(bond_db, entry, c, ks)
    /\ saved_db' = SaveStore(bond_db')
    /\ UNCHANGED <<sessionVars, keyset, cpc, handlerVars, inflight, term, waitVars,
                   threadVars, scanVars, callVars>>

\* ------------------------------------- delivery context: auth key request
\* _on_auth_key_request calling the listeners itself instead of starting the
\* thread of lines 317-320: the handler stays in the call until they are done
AuthKeyRequest_InHandler ==
    /\ connected
    /\ dpc = "idle"
    /\ "GapEvtAuthKeyRequest" \in subscribed
    /\ inflight # "none"
    /\ n_pending + n_checked < MaxResolvers
    /\ n_pending' = n_pending + 1
    /\ dpc' = "d318"
    /\ UNCHANGED <<sessionVars, storeVars, cpc, devt, notified, cmd, inflight, term,
                   waitVars, n_checked, stale, scanVars, callVars>>

\* _on_auth_key_request, lines 304-320: start a thread that notifies the
\* passkey-entry listeners with the resolve callback
AuthKeyRequest ==
    /\ connected
    /\ dpc = "idle"
    /\ "GapEvtAuthKeyRequest" \in subscribed
    /\ inflight # "none"
    /\ n_pending + n_checked < MaxResolvers
    /\ n_pending' = n_pending + 1
    /\ UNCHANGED <<sessionVars, storeVars, cpc, handlerVars, inflight, term, waitVars,
                   n_checked, stale, scanVars, callVars>>

\* resolve(), lines 309-310: a listener calls the callback; stale if not busy
Resolve_Check ==
    /\ n_pending > 0
    /\ n_pending' = n_pending - 1
    /\ n_checked' = IF busy THEN n_checked + 1 ELSE n_checked
    /\ \E old \in BOOLEAN :
          /\ IF old THEN stale.pending > 0 ELSE stale.pending < n_pending
          /\ stale' = [pending |-> stale.pending - (IF old THEN 1 ELSE 0),
                       checked |-> stale.checked + (IF old /\ busy THEN 1 ELSE 0)]
    /\ UNCHANGED <<sessionVars, storeVars, cpc, handlerVars, inflight, term, waitVars,
                   scanVars, callVars>>

\* resolve(), lines 311-315: format the passkey and send ble_gap_auth_key_reply
Resolve_Send ==
    /\ n_checked > 0
    /\ n_checked' = n_checked - 1
    /\ \E old \in BOOLEAN :
          /\ IF old THEN stale.checked > 0 ELSE stale.checked < n_checked
          /\ stale' = [stale EXCEPT !.checked = @ - (IF old THEN 1 ELSE 0)]
    /\ UNCHANGED <<sessionVars, storeVars, cpc, handlerVars, inflight, term, waitVars,
                   n_pending, scanVars, callVars>>

\* ------------------------------------------------ ScanFinishedWaitable
\* Waitable._notify: capture the result and release a blocked waiter
Waitable_Notify ==
    /\ sw_notified' = sw_notified + 1
    /\ sw_state' = IF sw_state = "waiting" THEN "fired" ELSE sw_state

\* _event_occurred, lines 11-13
event_occurred ==
    /\ sw_sub' = FALSE
    /\ Waitable_Notify

\* _on_timeout_event without the source test of line 19: every Timeout event
\* is taken for the end of the scan
on_timeout_event_AnySource(src) ==
    event_occurred

\* _on_timeout_event, lines 15-20
on_timeout_event(src) ==
    IF src = "scan" THEN event_occurred ELSE UNCHANGED scanVars

\* __init__, lines 6-9: the waitable subscribes itself to GapEvtTimeout
ScanStart ==
    /\ cpc = "idle"
    /\ sw_state = "none"
    /\ sw_sub' = TRUE
    /\ sw_state' = "waiting"
    /\ sw_notified' = 0
    /\ UNCHANGED <<sessionVars, storeVars, cpc, handlerVars, inflight, term, waitVars,
                   threadVars, callVars>>

\* Waitable.wait(timeout): the timeout elapses before a result is captured.
\* The subscription made in __init__ is to the driver, which the waitable keeps
\* no reference to; only _event_occurred, handed the driver, removes it.
ScanWait_Timeout ==
    /\ cpc = "idle"
    /\ sw_state = "waiting"
    /\ sw_state' = "timedout"
    /\ UNCHANGED <<sessionVars, storeVars, cpc, handlerVars, inflight, term, waitVars,
                   threadVars, sw_sub, sw_notified, callVars>>

\* ------------------------------------------- delivery context: timeout
\* _on_timeout, lines 322-328
on_timeout(src, origin) ==
    IF src # "security_req"
    THEN UNCHANGED <<notified, waitVars, term>>
    ELSE NotifyComplete("timeout", origin = "pair")

\* the driver delivers a GapEvtTimeout to the handlers subscribed to it
TimeoutEvent(src) ==
    /\ dpc = "idle"
    /\ src = "security_req" => connected /\ inflight = "pair"
    /\ src = "scan" => sw_state # "none"
    /\ devt' = Evt("GapEvtTimeout", "none", FALSE, src, MasterId(0, 0), EmptyKeyset, inflight)
    /\ inflight' = IF src = "security_req" THEN "none" ELSE inflight
    /\ IF "GapEvtTimeout" \in subscribed
       THEN on_timeout(src, inflight)
       ELSE UNCHANGED <<notified, waitVars, term>>
    /\ IF sw_sub
       THEN on_timeout_event(src)
       ELSE UNCHANGED scanVars
    /\ dpc' = "dDone"
    /\ IF src = "security_req" THEN AttemptOver ELSE UNCHANGED threadVars
    /\ UNCHANGED <<sessionVars, storeVars, cpc, cmd, callVars>>

\* ---------------------------------------------------- calling context
\* positions of the calling context inside pair()
PairInProgress == {"c177", "c178", "c179"}
\* positions right after a public method raised
Raised == {"raised_InvalidState", "raised_InvalidOperation", "raised_DriverError"}

\* set_security_params, lines 144-160: replaces the parameters and returns
SetSecurityParams(p) ==
    /\ cpc = "idle"
    /\ security_params' = p
    /\ cpc' = "set_returned"
    /\ UNCHANGED <<is_client, connected, peer_address, subscribed, busy, bond_db_entry,
                   storeVars, handlerVars, inflight, term, waitVars, threadVars, scanVars,
                   callVars>>

\* the caller takes the result of the call (or catches what it raised)
Caller_Return ==
    /\ cpc \in Raised \cup {"set_returned"}
    /\ cpc' = "idle"
    /\ UNCHANGED <<sessionVars, storeVars, handlerVars, inflight, term, waitVars,
                   threadVars, scanVars, callVars>>

\* pair(), lines 171-174: where the two precondition checks lead
PairOutcome(b, reject) ==
    IF b THEN "raised_InvalidState"
    ELSE IF reject THEN "raised_InvalidOperation"
    ELSE "c177"

Pair_Check ==
    /\ cpc = "idle"
    /\ connected
    /\ cpc' = PairOutcome(busy, security_params.reject_pairing_requests)
    /\ UNCHANGED <<sessionVars, storeVars, handlerVars, inflight, term, waitVars,
                   threadVars, scanVars, callVars>>

\* lines 176-177: ble_gap_authenticate; the driver refuses a dead connection
Pair_Authenticate ==
    /\ cpc = "c177"
    /\ IF connected
       THEN /\ inflight' = IF inflight = "none" THEN "pair" ELSE "dup"
            /\ term' = "none"
            /\ cpc' = "c178"
       ELSE /\ cpc' = "raised_DriverError"
            /\ UNCHANGED <<inflight, term>>
    /\ UNCHANGED <<sessionVars, storeVars, handlerVars, waitVars, threadVars, scanVars, callVars>>

\* line 178
Pair_SetBusy ==
    /\ cpc = "c178"
    /\ busy' = TRUE
    /\ cpc' = "c179"
    /\ UNCHANGED <<is_client, connected, peer_address, subscribed, security_params,
                   bond_db_entry, storeVars, handlerVars, inflight, term, waitVars,
                   threadVars, scanVars, callVars>>

\* line 179: EventWaitable(on_pairing_complete) registers on the event source
Pair_Return ==
    /\ cpc = "c179"
    /\ w_state' = "registered"
    /\ w_args' = "none"
    /\ cpc' = "idle"
    /\ UNCHANGED <<sessionVars, storeVars, handlerVars, inflight, term, threadVars,
                   scanVars, callVars>>

\* EventWaitable.wait(timeout): the timeout elapses first; the waitable unregisters
Wait_Timeout ==
    /\ cpc = "idle"
    /\ w_state = "registered"
    /\ w_state' = "timedout"
    /\ UNCHANGED <<sessionVars, storeVars, cpc, handlerVars, inflight, term, w_args,
                   threadVars, scanVars, callVars>>

\* ------------------------------------------------------- direct calls
\* _find_db_entry(peer_address) on the store as it is, lines 197-213
FindDbEntry(a) ==
    /\ dpc = "idle"
    /\ lk' = [called |-> TRUE, addr |-> a,
              out |-> find_db_entry(bond_db, is_client, a),
              calls |-> ResolverCalls(bond_db, is_client, a)]
    /\ UNCHANGED <<sessionVars, storeVars, cpc, handlerVars, inflight, term, waitVars,
                   threadVars, scanVars, rs>>

\* private_address_resolves(peer_addr, irk), lines 46-65: the outcome is the
\* ValueError of ah() or the boolean returned
ResolveOutcome(peer_addr, irk) ==
    IF ResolveRaises(peer_addr) THEN "raised_ValueError"
    ELSE IF private_address_resolves(peer_addr, irk) THEN "true"
    ELSE "false"

PrivateAddressResolves(bytes, irk) ==
    /\ dpc = "idle"
    /\ rs' = [called |-> TRUE, addr |-> bytes, irk |-> irk,
              out |-> ResolveOutcome(
                          [addr_type |-> "random_private_resolvable", addr |-> bytes], irk)]
    /\ UNCHANGED <<sessionVars, storeVars, cpc, handlerVars, inflight, term, waitVars,
                   threadVars, scanVars, lk>>

\* ------------------------------------------------------- specifications
\* inputs of the pairing specification
SessionAddrs == {PublicAddr(1)}
SessionKeysets ==
    {Keyset(Ltk(MasterId(1, 1), 1), Ltk(MasterId(1, 0), 1), IdKey(<<0, 1>>, PublicAddr(1)))}
SessionParams == {SecurityParameters(TRUE, r) : r \in BOOLEAN}

\* keys the driver holds when it reports the status: none unless a bond was made
NegotiatedKeys(status, bonded, keysets) ==
    IF status = "success" /\ bonded THEN keysets ELSE {EmptyKeyset}

Init ==
    /\ is_client \in BOOLEAN
    /\ bond_db = <<>>
    /\ security_params \in SessionParams
    /\ InitCommon

\* the calling context against the delivery context and the passkey threads
Next ==
    \/ \E a \in SessionAddrs : PeerConnected(a)
    \/ PeerDisconnected
    \/ SecParamsRequest_Reply
    \/ SecParamsRequest_Busy
    \/ \E st \in AuthStatuses, b \in BOOLEAN :
          \E ks \in NegotiatedKeys(st, b, SessionKeysets) : AuthStatus_Busy(st, b, ks)
    \/ AuthStatus_Notify
    \/ AuthStatus_Save
    \/ AuthKeyRequest
    \/ Resolve_Check
    \/ Resolve_Send
    \/ \E src \in TimeoutSrcs : TimeoutEvent(src)
    \/ Handler_Return
    \/ \E p \in SessionParams : SetSecurityParams(p)
    \/ Caller_Return
    \/ Pair_Check
    \/ Pair_Authenticate
    \/ Pair_SetBusy
    \/ Pair_Return
    \/ Wait_Timeout

Spec == Init /\ [][Next]_vars

\* scanning with a pairing in the background: every source of GapEvtTimeout
InitScan ==
    /\ is_client = FALSE
    /\ bond_db = <<>>
    /\ security_params = SecurityParameters(TRUE, FALSE)
    /\ InitCommon

NextScan ==
    \/ \E a \in SessionAddrs : PeerConnected(a)
    \/ PeerDisconnected
    \/ \E src \in TimeoutSrcs : TimeoutEvent(src)
    \/ Handler_Return
    \/ Caller_Return
    \/ Pair_Check
    \/ Pair_Authenticate
    \/ Pair_SetBusy
    \/ Pair_Return
    \/ Wait_Timeout
    \/ ScanStart
    \/ ScanWait_Timeout

SpecScan == InitScan /\ [][NextScan]_vars

\* bonding: the delivery context alone, peers that supply addresses and keys
BondIrks == {<<1, 0>>, <<0, 1>>}
BondIdAddrs == {PublicAddr(0), StaticAddr(1)}
BondRpas == {RpaFrom(irk, p) : irk \in BondIrks, p \in 0..1}
BondAddrs == BondIdAddrs \cup BondRpas \cup {NonResolvableAddr(0)}
BondLtks == {Ltk(MasterId(1, 1), 1), Ltk(MasterId(1, 2), 2)}
BondKeysets ==
    {Keyset(own, Ltk(MasterId(2, 1), 3), IdKey(irk, a)) :
        own \in BondLtks, irk \in BondIrks, a \in BondIdAddrs}
BondMasterIds == {MasterId(1, 1), MasterId(1, 2), MasterId(2, 1), MasterId(2, 2)}

\* the store as loaded: empty, or holding a bond made in the other role
InitBond ==
    /\ is_client \in BOOLEAN
    /\ bond_db \in {<<>>,
                    <<BondRecord(~is_client, PublicAddr(0),
                                 Keyset(Ltk(MasterId(1, 1), 1), Ltk(MasterId(2, 1), 3),
                                        IdKey(<<1, 0>>, PublicAddr(0))))>>}
    /\ security_params = SecurityParameters(TRUE, FALSE)
    /\ InitCommon

NextBond ==
    \/ \E a \in BondAddrs : PeerConnected(a)
    \/ PeerDisconnected
    \/ SecParamsRequest_Reply
    \/ SecParamsRequest_Busy
    \/ \E mid \in BondMasterIds : SecInfoRequest(mid)
    \/ Handler_Return
    \/ \E st \in AuthStatuses, b \in BOOLEAN :
          \E ks \in NegotiatedKeys(st, b, BondKeysets) : AuthStatus_Busy(st, b, ks)
    \/ AuthStatus_Notify
    \/ AuthStatus_Save

SpecBond == InitBond /\ [][NextBond]_vars

\* reconnection: as above, with peers that only ever connect under resolvable
\* private addresses
NextReconnect ==
    \/ \E a \in BondRpas : PeerConnected(a)
    \/ PeerDisconnected
    \/ SecParamsRequest_Reply
    \/ SecParamsRequest_Busy
    \/ \E mid \in BondMasterIds : SecInfoRequest(mid)
    \/ Handler_Return
    \/ \E st \in AuthStatuses, b \in BOOLEAN :
          \E ks \in NegotiatedKeys(st, b, BondKeysets) : AuthStatus_Busy(st, b, ks)
    \/ AuthStatus_Notify
    \/ AuthStatus_Save

SpecReconnect == InitBond /\ [][NextReconnect]_vars

\* shared store: the bonding handlers of this manager and the saves of the
\* managers of other peers, all run by the one delivery context
SharedAddrs == BondIdAddrs \cup {RpaFrom(<<1, 0>>, 0), RpaFrom(<<0, 1>>, 0)}
SharedKeysets ==
    {Keyset(Ltk(MasterId(1, 1), 1), Ltk(MasterId(2, 1), 3), IdKey(irk, a)) :
        irk \in BondIrks, a \in BondIdAddrs}
OtherKeysets ==
    {Keyset(Ltk(MasterId(1, 2), 2), Ltk(MasterId(2, 1), 3), IdKey(<<1, 0>>, a)) :
        a \in BondIdAddrs}

NextShared ==
    \/ \E a \in SharedAddrs : PeerConnected(a)
    \/ PeerDisconnected
    \/ SecParamsRequest_Reply
    \/ SecParamsRequest_Busy
    \/ SecInfoRequest(MasterId(2, 1))
    \/ Handler_Return
    \/ \E ks \in SharedKeysets : AuthStatus_Busy("success", TRUE, ks)
    \/ AuthStatus_Notify
    \/ AuthStatus_Save
    \/ \E c \in BOOLEAN, entry \in 0..MaxBonds, ks \in OtherKeysets :
          OtherManager_Save(c, entry, ks)

SpecShared == InitBond /\ [][NextShared]_vars

\* lookup: _find_db_entry over every small store and every address type
MaxStore == 2         \* records in a store the lookup is tried on
Retyped(a, t) == [addr_type |-> t, addr |-> a.addr]
LookupAddrs == {Retyped(a, t) : a \in BondIdAddrs \cup BondRpas, t \in AddrTypes}
StoredAddrs ==
    {PublicAddr(0), StaticAddr(1), Retyped(PublicAddr(0), "random_private_non_resolvable")}
StoredRecords ==
    {BondRecord(c, a, Keyset(Ltk(MasterId(1, 1), 1), Ltk(MasterId(2, 1), 3), IdKey(irk, a))) :
        c \in BOOLEAN, a \in StoredAddrs, irk \in BondIrks}
RECURSIVE StoresOfLen(_)
StoresOfLen(n) ==
    IF n = 0 THEN {<<>>}
    ELSE {Append(db, r) : db \in StoresOfLen(n - 1), r \in StoredRecords}
LookupStores == UNION {StoresOfLen(n) : n \in 0..MaxStore}

InitLookup ==
    /\ is_client \in BOOLEAN
    /\ bond_db \in LookupStores
    /\ security_params = SecurityParameters(TRUE, FALSE)
    /\ InitCommon

NextLookup ==
    \E a \in LookupAddrs : FindDbEntry(a)

SpecLookup == InitLookup /\ [][NextLookup]_vars

\* resolver: private_address_resolves over byte strings of every small length
MaxAddrLen == 7       \* longest address byte string handed to the resolver
RECURSIVE BytesOfLen(_)
BytesOfLen(n) ==
    IF n = 0 THEN {<<>>}
    ELSE {Append(b, x) : b \in BytesOfLen(n - 1), x \in 0..(ByteMod - 1)}
ResolverInputs == UNION {BytesOfLen(n) : n \in 0..MaxAddrLen}

NextResolver ==
    \E bytes \in ResolverInputs, irk \in BondIrks : PrivateAddressResolves(bytes, irk)

SpecResolver == InitBond /\ [][NextResolver]_vars

\* ------------------------------------------------------------ properties
\* C1: a pair() call made while _busy is set raises InvalidState, and a pair()
\* call made while the security parameters reject pairing requests raises
\* InvalidOperation.
C1_PairRaisesPerFlag ==
    [][(cpc = "idle" /\ cpc' \in PairInProgress \cup Raised)
         => /\ busy => cpc' = "raised_InvalidState"
            /\ security_params.reject_pairing_requests => cpc' = "raised_InvalidOperation"]_vars

\* C2: set_security_params called while the session is busy raises
\* InvalidOperation and leaves the security parameters as they were.
C2_SetParamsRefusedWhileBusy ==
    [][(cpc = "idle" /\ busy /\ cpc' \in {"set_returned", "raised_InvalidOperation"})
         => /\ cpc' = "raised_InvalidOperation"
            /\ security_params' = security_params]_vars

\* C3: while a pairing procedure is outstanding at the driver (authenticate sent
\* or security-params request accepted, terminal event not yet delivered) _busy
\* is set, and no authenticate is sent on top of an outstanding procedure.
C3_BusyWhileOutstanding ==
    /\ inflight # "none" => busy
    /\ inflight # "dup"

\* C4: when a successful bonded GapEvtAuthStatus is handled and no record
\* matched the peer (the session holds none and no role-matching record is
\* stored under the negotiated identity address), the store gains exactly one
\* record, holding the negotiated keys, and is saved; when a role-matching
\* record is already stored under that identity address, that record's key
\* material is replaced and the number of records does not grow.
C4_BondedSaveUpdatesIdentityRecord ==
    [][(dpc = "d275" /\ dpc' = "idle" /\ devt.status = "success" /\ devt.bonded)
         => LET ks == devt.keys
                ident == {i \in 1..Len(bond_db) :
                             /\ bond_db[i].peer_is_client = is_client
                             /\ bond_db[i].peer_addr = ks.id_key.peer_addr}
            IN  /\ (bond_db_entry = NoEntry /\ ident = {})
                      => /\ Len(bond_db') = Len(bond_db) + 1
                         /\ bond_db'[Len(bond_db')].bonding_data = BondingData(ks)
                         /\ saved_db' = bond_db'
                /\ \A i \in ident :
                      /\ bond_db'[i].bonding_data = BondingData(ks)
                      /\ Len(bond_db') = Len(bond_db)]_vars

\* C4 (as the code has it): when a successful bonded GapEvtAuthStatus is
\* handled, the keys go to the record the session already holds (from the
\* connect-time lookup, a security-info request or an earlier save), else to the
\* first role-matching record stored under the negotiated identity address;
\* only when there is neither is one record appended, with the role, the
\* identity address and the negotiated keys.  Every other record is left as it
\* was, the session holds the record written, and the store is saved.
C4_BondedSaveUpdatesSessionRecord ==
    [][(dpc = "d275" /\ dpc' = "idle" /\ devt.status = "success" /\ devt.bonded)
         => LET ks == devt.keys
                ident == {i \in 1..Len(bond_db) :
                             /\ bond_db[i].peer_is_client = is_client
                             /\ bond_db[i].peer_addr = ks.id_key.peer_addr}
                target == IF bond_db_entry # NoEntry THEN {bond_db_entry}
                          ELSE {i \in ident : \A j \in ident : i <= j}
            IN  /\ saved_db' = bond_db'
                /\ keyset' = ks
                /\ IF target = {}
                   THEN /\ bond_db' = Append(bond_db,
                                        [peer_is_client |-> is_client,
                                         peer_addr |-> ks.id_key.peer_addr,
                                         bonding_data |-> BondingData(ks)])
                        /\ bond_db_entry' = Len(bond_db')
                   ELSE /\ Len(bond_db') = Len(bond_db)
                        /\ bond_db_entry' \in target
                        /\ \A i \in 1..Len(bond_db) :
                              bond_db'[i] =
                                  IF i \in target
                                  THEN [bond_db[i] EXCEPT !.bonding_data = BondingData(ks)]
                                  ELSE bond_db[i]]_vars

\* two bonds were created in the manager's role, and the session's record (the
\* first) was then rewritten with keys negotiated for the identity the second
\* is stored under
C4_SessionRecordRewritten ==
    /\ dpc = "idle"
    /\ Len(bond_db) = 2
    /\ bond_db[1].peer_is_client = is_client
    /\ bond_db[2].peer_is_client = is_client
    /\ bond_db_entry = 1
    /\ bond_db[1].bonding_data = BondingData(keyset)
    /\ keyset.id_key.peer_addr = bond_db[2].peer_addr
    /\ bond_db[1].peer_addr # bond_db[2].peer_addr
    /\ saved_db = bond_db

C6_ReplyOnlyWhileBusy ==
    [][n_checked' < n_checked => busy]_vars

\* C7: once the terminal event of the attempt started by pair() has been
\* notified, the handle pair() returned is resolved with that event's status
\* (unless its wait had timed out before).
C7_HandleResolvedByTerminalEvent ==
    (w_state \in {"registered", "fired"} /\ term # "none" /\ cpc \notin PairInProgress)
        => (w_state = "fired" /\ w_args = term)

\* C8: handling a GapEvtTimeout raises the pairing-complete notification, with
\* status timeout, exactly when the source of the timeout is security_req.
C8_TimeoutNotifiesIffSecurityReq ==
    (dpc = "dDone" /\ devt.type = "GapEvtTimeout")
        => (notified = "timeout" <=> devt.src = "security_req")

\* C9: when the security-request timeout of a pairing attempt has been handled,
\* _busy is clear.
C9_TimeoutClearsBusy ==
    [][(dpc = "idle" /\ dpc' = "dDone" /\ devt'.src = "security_req") => ~busy']_vars

\* C10: a wait is resolved by the event or by the timeout, never both: after
\* the timeout outcome no completion is delivered to the waitable, and after
\* the event resolved it the waitable is no longer subscribed.
C10_ResolvedExactlyOnce ==
    /\ sw_state = "timedout" => sw_notified = 0
    /\ sw_state = "fired" => ~sw_sub

\* C11: _find_db_entry returns no record for an address of type
\* random_private_non_resolvable, whatever the store holds and whatever the
\* peer's role is.
C11_NonResolvableNeverMatches ==
    (lk.called /\ lk.addr.addr_type = "random_private_non_resolvable")
        => lk.out = NoEntry

\* the lookup was made for a non-resolvable address while the store held a
\* role-matching record under that very address and a role-matching record
\* whose IRK resolves its bytes
C11_NonResolvableLookedUp ==
    /\ lk.called
    /\ lk.addr.addr_type = "random_private_non_resolvable"
    /\ \E i \in 1..Len(bond_db) :
          /\ bond_db[i].peer_is_client = is_client
          /\ bond_db[i].peer_addr = lk.addr
    /\ \E i \in 1..Len(bond_db) :
          /\ bond_db[i].peer_is_client = is_client
          /\ private_address_resolves(lk.addr, bond_db[i].bonding_data.peer_id.irk)
    /\ lk.out = NoEntry

\* C12: for an address of type public or random_static, _find_db_entry returns
\* a record exactly when a role-matching record is stored under an equal
\* address (it returns the first such record), and it does not call
\* private_address_resolves.
C12_ExactMatchWithoutResolver ==
    (lk.called /\ lk.addr.addr_type \in {"public", "random_static"})
        => LET exact == {i \in 1..Len(bond_db) :
                            /\ bond_db[i].peer_is_client = is_client
                            /\ bond_db[i].peer_addr = lk.addr}
           IN  /\ lk.out # NoEntry <=> exact # {}
               /\ lk.out # NoEntry => (lk.out \in exact /\ \A j \in exact : lk.out <= j)
               /\ lk.calls = 0

\* the lookup was made for a public or static address; an earlier role-matching
\* record stored under another address holds an IRK that resolves the bytes of
\* the address, and the record returned is the later one stored under it
C12_ExactMatchPastResolvingRecord ==
    /\ lk.called
    /\ lk.addr.addr_type \in {"public", "random_static"}
    /\ lk.out # NoEntry
    /\ \E i \in 1..Len(bond_db) :
          /\ i < lk.out
          /\ bond_db[i].peer_is_client = is_client
          /\ bond_db[i].peer_addr # lk.addr
          /\ private_address_resolves(lk.addr, bond_db[i].bonding_data.peer_id.irk)

\* C13: private_address_resolves raises (ValueError) instead of returning a
\* boolean whenever the address it is given is not exactly 6 bytes long.
C13_ResolverRejectsNon6Bytes ==
    (rs.called /\ Len(rs.addr) # 6) => rs.out = "raised_ValueError"

\* the resolver was given a 5-byte address and returned False
C13_ShortAddressAnswered ==
    /\ rs.called
    /\ Len(rs.addr) = 5
    /\ rs.out = "false"

\* C14: once the GapEvtAuthStatus that ends the attempt started by pair() has
\* been handled, and while the peer stays connected with no procedure
\* outstanding and no pair() call under way, _busy is clear (so that the next
\* pair() passes the check of line 171 and sends authenticate).
C14_IdleAfterTerminalEvent ==
    (/\ term # "none"
     /\ connected
     /\ inflight = "none"
     /\ cpc \notin PairInProgress
     /\ dpc = "idle")
        => ~busy

\* a pair() made after the attempt ended was refused with InvalidState
C14_PairRefusedAfterTerminalEvent ==
    /\ term # "none"
    /\ connected
    /\ inflight = "none"
    /\ ~security_params.reject_pairing_requests
    /\ cpc = "raised_InvalidState"

\* C15: handling a GapEvtSecParamsRequest sends one sec-params reply, with
\* status pairing_not_supp when the parameters reject pairing requests and
\* success otherwise, carrying the security parameters when the peer is a
\* client and none when it is a server; and the handler sets _busy exactly
\* when the reply it sent accepted the request, leaving _busy as it was when
\* the reply rejected it.
C15_SecParamsReplyAndBusy ==
    [][/\ (dpc = "idle" /\ dpc' = "d237")
          => /\ cmd'.name = "sec_params_reply"
             /\ cmd'.status = IF security_params.reject_pairing_requests
                              THEN "pairing_not_supp" ELSE "success"
             /\ cmd'.sec_params = IF is_client
                                  THEN <<get_security_params(security_params)>>
                                  ELSE <<>>
       /\ (dpc = "d237" /\ dpc' = "idle")
          => IF cmd.status = "success" THEN busy' ELSE busy' = busy]_vars

\* the handler is between its reply, which rejected the request, and its
\* second reading of the parameters, which no longer reject
C15_ParamsChangedInsideHandler ==
    /\ dpc = "d237"
    /\ cmd.status = "pairing_not_supp"
    /\ ~security_params.reject_pairing_requests
    /\ ~busy

\* C16: handling a GapEvtSecInfoRequest sends one sec-info reply.  When some
\* role-matching record has its own or its peer master id (ediv and rand) equal
\* to the requested one, the reply carries the own-LTK encryption info of the
\* first such record in store order, whichever of the two ids matched, and the
\* session holds that record; when no record matches, the reply is empty and
\* the session's record is left as it was.
C16_SecInfoReplyFromFirstMatch ==
    [][(dpc = "idle" /\ dpc' = "dDone" /\ devt'.type = "GapEvtSecInfoRequest")
         => LET mid == devt'.master_id
                match == {i \in 1..Len(bond_db) :
                             /\ bond_db[i].peer_is_client = is_client
                             /\ \/ bond_db[i].bonding_data.own_ltk.master_id = mid
                                \/ bond_db[i].bonding_data.peer_ltk.master_id = mid}
            IN  /\ cmd'.name = "sec_info_reply"
                /\ IF match = {}
                   THEN /\ cmd'.enc_info = <<>>
                        /\ bond_db_entry' = bond_db_entry
                   ELSE /\ bond_db_entry' \in match
                        /\ \A j \in match : bond_db_entry' <= j
                        /\ cmd'.enc_info =
                               <<bond_db[bond_db_entry'].bonding_data.own_ltk.enc_info>>]_vars

\* a request was answered from the first of two role-matching records that both
\* match it, by the peer master id only, and whose encryption infos differ
C16_RepliedFromFirstOfTwo ==
    /\ dpc = "dDone"
    /\ devt.type = "GapEvtSecInfoRequest"
    /\ Len(bond_db) = 2
    /\ \A i \in 1..2 :
          /\ bond_db[i].peer_is_client = is_client
          /\ bond_db[i].bonding_data.peer_ltk.master_id = devt.master_id
          /\ bond_db[i].bonding_data.own_ltk.master_id # devt.master_id
    /\ bond_db[1].bonding_data.own_ltk.enc_info # bond_db[2].bonding_data.own_ltk.enc_info
    /\ cmd.enc_info = <<bond_db[1].bonding_data.own_ltk.enc_info>>
    /\ bond_db_entry = 1

C18_StoreUniqueByAddressAndRole ==
    \A i, j \in 1..Len(bond_db) :
        (/\ bond_db[i].peer_addr = bond_db[j].peer_addr
         /\ bond_db[i].peer_is_client = bond_db[j].peer_is_client)
            => i = j

\* the store holds two bonds of this manager's role under different identity
\* addresses: the first holds the keys this session negotiated last, for the
\* identity it is stored under, the second was written by the manager of
\* another peer
C18_BondedAgainSameIdentity ==
    /\ Len(bond_db) = 2
    /\ bond_db[1].peer_is_client = is_client
    /\ bond_db[2].peer_is_client = is_client
    /\ bond_db[1].peer_addr # bond_db[2].peer_addr
    /\ keyset.id_key.peer_addr = bond_db[1].peer_addr
    /\ bond_db[1].bonding_data = BondingData(keyset)
    /\ bond_db[2].bonding_data \in {BondingData(ks) : ks \in OtherKeysets}
    /\ bond_db[2].bonding_data.peer_id.peer_addr = bond_db[2].peer_addr
    /\ dpc = "idle"
    /\ bond_db_entry = 1


\* C19: a resolve callback handed out for the AuthKeyRequest of an attempt
\* that has since ended (terminal event, security-request timeout, disconnect
\* or reconnect) never sends an authKeyReply into a later procedure: while
\* the peer is connected and a procedure is outstanding, no reply is sent by
\* a thread whose callback was already stale when it passed the check of
\* line 309.
C19_StaleResolveNeverSends ==
    [][(n_checked' < n_checked /\ connected /\ inflight # "none")
          => stale'.checked = stale.checked]_vars

\* a callback of an ended attempt has passed the _busy check while a later
\* procedure is outstanding and the session is busy again
C19_StaleResolvePassedCheck ==
    /\ stale.checked > 0
    /\ connected
    /\ busy
    /\ inflight # "none"


\* C20: a ScanFinishedWaitable notifies its waiter only for a Timeout event
\* whose source is scan; a Timeout event with any other source neither
\* notifies nor unsubscribes it; the first scan timeout delivered while it is
\* subscribed notifies once and unsubscribes it, so it notifies at most once.
C20_NotifiesOnlyOnScanTimeout ==
    /\ [](sw_notified <= 1)
    /\ [][ /\ sw_notified' > sw_notified =>
                /\ devt'.type = "GapEvtTimeout"
                /\ devt'.src = "scan"
                /\ sw_sub
                /\ ~sw_sub'
                /\ sw_notified' = sw_notified + 1
           /\ (dpc = "idle" /\ dpc' = "dDone" /\ devt'.type = "GapEvtTimeout") =>
                IF devt'.src = "scan" /\ sw_sub
                THEN sw_notified' = sw_notified + 1 /\ ~sw_sub'
                ELSE UNCHANGED scanVars ]_vars

\* the scan timeout was delivered to the subscribed waitable: the waiter is
\* released, notified once, and the waitable is unsubscribed
C20_ScanTimeoutNotifiedOnce ==
    /\ devt.type = "GapEvtTimeout"
    /\ devt.src = "scan"
    /\ dpc = "dDone"
    /\ sw_state = "fired"
    /\ sw_notified = 1
    /\ ~sw_sub


\* C21: an authentication status that is not success, or not bonded, leaves
\* the bond store, the persisted store, the keyset and the session's bond
\* record unchanged in every step of its handler; its first step clears busy,
\* its second raises the pairing-complete notification with the reported
\* status, and no reply is handed to the driver. A pair() that raises
\* InvalidState or InvalidOperation starts no procedure and leaves busy
\* unchanged.
C21_FailedAttemptLeavesStore ==
    [][ /\ (dpc = "idle" /\ dpc' = "d273" /\ ~(devt'.status = "success" /\ devt'.bonded)) =>
              /\ ~busy'
              /\ UNCHANGED <<storeVars, bond_db_entry, notified, cmd>>
        /\ (dpc = "d273" /\ dpc' = "d275" /\ ~(devt.status = "success" /\ devt.bonded)) =>
              /\ notified' = devt.status
              /\ UNCHANGED <<busy, storeVars, bond_db_entry, cmd>>
        /\ (dpc = "d275" /\ dpc' = "idle" /\ ~(devt.status = "success" /\ devt.bonded)) =>
              UNCHANGED <<busy, storeVars, bond_db_entry>>
        /\ (cpc = "idle" /\ cpc' \in {"raised_InvalidState", "raised_InvalidOperation"}) =>
              UNCHANGED <<busy, inflight, term, cmd, storeVars, bond_db_entry>> ]_vars

\* a failed status was notified against a store that holds a bond, while a
\* pair() of the caller has been refused
C21_FailureNotifiedStoreKept ==
    /\ dpc = "d275"
    /\ devt.type = "GapEvtAuthStatus"
    /\ devt.status # "success"
    /\ notified = devt.status
    /\ Len(bond_db) > 0
    /\ bond_db_entry # NoEntry
    /\ cpc \in {"raised_InvalidState", "raised_InvalidOperation"}


\* C22: on a successful bonded authentication status busy is cleared first,
\* then the pairing-complete notification is raised, and only afterwards the
\* bond record is written and persisted: in the step that notifies the
\* listeners and the waiter of pair(), busy is false and the handler has not
\* yet touched the keyset, the bond store, the persisted store or the
\* session's bond record.
C22_NotifiedIdleBeforeSave ==
    [][ /\ (dpc = "idle" /\ dpc' = "d273" /\ devt'.status = "success" /\ devt'.bonded) =>
              /\ ~busy'
              /\ UNCHANGED <<storeVars, bond_db_entry, notified>>
        /\ (dpc = "d273" /\ dpc' = "d275" /\ devt.status = "success" /\ devt.bonded) =>
              /\ notified' = "success"
              /\ ~busy
              /\ ~busy'
              /\ UNCHANGED <<storeVars, bond_db_entry>> ]_vars

\* the store half of C22 alone: nothing is written before the notification
C22_NothingSavedBeforeNotify ==
    [][ (dpc \in {"idle", "d273"} /\ dpc' \in {"d273", "d275"}
            /\ devt'.status = "success" /\ devt'.bonded) =>
              UNCHANGED <<storeVars, bond_db_entry>> ]_vars

\* the listeners were notified of a successful bonded pairing, the keys are
\* not saved yet, and the session is busy
C22_NotifiedWhileBusy ==
    /\ dpc = "d275"
    /\ devt.type = "GapEvtAuthStatus"
    /\ devt.status = "success"
    /\ devt.bonded
    /\ notified = "success"
    /\ busy

====
